---------------------------- MODULE Spec2Model ----------------------------
(***************************************************************************)
(* A model of ComputeMesh_Backend's ConnectionManager                       *)
(* (command_dispatcher.py) together with its callers in main.py: the /ws    *)
(* connection handler (websocket_endpoint), the HTTP helper                 *)
(* send_command_to_client, and chat_completion with the state it assumes    *)
(* of the designated client.                                                *)
(*                                                                         *)
(* Scheduling.  Everything runs on one asyncio event loop: a task runs      *)
(* without interruption from one suspension point to the next.  An action   *)
(* of this model is one such uninterrupted run.  asyncio.Lock.acquire()     *)
(* does not suspend when the lock is free, so a critical section without    *)
(* an await inside is one action guarded by "the lock is free"; a task that *)
(* finds the lock taken is simply not enabled until it is released.  Only   *)
(* connect() awaits (close, accept) while holding the lock.                 *)
(*                                                                         *)
(* The callers.  main.py line 435 calls manager.connect(websocket, user.id)  *)
(* without the user_type that connect() requires; the model follows the     *)
(* signature of ConnectionManager.connect and draws user_type and           *)
(* http_base_url from ConnArgs.  The heartbeat task that connect() starts   *)
(* reads active_connections and writes pings; it changes nothing that the   *)
(* other tasks read, and its steps are part of the heartbeat                *)
(* specifications only.                                                     *)
(*                                                                         *)
(* Dictionaries are functions whose DOMAIN is the set of keys.  A           *)
(* websocket object is a number in WS, a user id a number in Users.  The    *)
(* command id that uuid4 draws is identified with the invocation of         *)
(* send_command that draws it (a number in Cmds), and the asyncio.Future    *)
(* created for it is future[c].                                             *)
(***************************************************************************)
EXTENDS Integers, Sequences, FiniteSets, TLC

\* ------------------------------------------------------------- bounds
NumUsers == 2
NumWS == 3
CmdWS == 2
MaxCmds == 2
MaxChatCalls == 6
NumModels == 2

Users == 1..NumUsers
WS == 1..NumWS
\* send_command_to_client invocations
Direct == 1..MaxCmds
\* the send_and_wait task broadcast_command creates for user u
RecipientId(u) == MaxCmds + u
Recipients == {RecipientId(u) : u \in Users}
\* main.py line 24: the user id of the designated client
TARGET_CLIENT_USER_ID == 1
\* the k-th send_command_to_client call made by chat_completion requests
ChatId(k) == MaxCmds + NumUsers + k
ChatCmds == {ChatId(k) : k \in 1..MaxChatCalls}
Cmds == Direct \cup Recipients \cup ChatCmds
\* no call made yet
NoCmd == 0
\* request.model values; NoModel is Python's None
Models == 1..NumModels
NoModel == 0
\* no request has finished yet
NoStatus == 0
NoTask == 0
\* no websocket: the local variable websocket of send_command is unset
NoWebSocket == 0

\* ------------------------------------------------------------- strings
\* A Python str is a sequence of one-character strings.
Str_http == <<"h","t","t","p",":","/","/">>
Str_https == <<"h","t","t","p","s">>
Url_good == <<"h","t","t","p",":","/","/","a","/">>
Url_nosep == <<"h","t","t","p","s","x">>
Url_ftp == <<"f","t","p",":","/","/","a">>
Url_bare == <<"h","t","t","p",":","/","/">>
Url_empty == <<>>

startswith(s, p) ==
    /\ Len(s) >= Len(p)
    /\ SubSeq(s, 1, Len(p)) = p

RECURSIVE rstrip(_, _)
rstrip(s, ch) ==
    IF Len(s) > 0 /\ s[Len(s)] = ch
    THEN rstrip(SubSeq(s, 1, Len(s) - 1), ch)
    ELSE s

\* Optional[str]: given = FALSE is Python's None
NoUrl == [given |-> FALSE, text |-> <<>>]
UrlInputs ==
    {NoUrl} \cup {[given |-> TRUE, text |-> t] : t \in {Url_good, Url_bare, Url_nosep, Url_ftp, Url_empty}}
\* truth value of an Optional[str]
Truthy(x) == x.given /\ Len(x.text) > 0
UserTypes == {"provider", "client"}
\* the (user_type, http_base_url) arguments of connect()
ConnArgs == [user_type : UserTypes, http_base_url : UrlInputs]
NoArgs == [user_type |-> "client", http_base_url |-> NoUrl]

\* ------------------------------------------------------------- dicts
DictPop(d, k) == [x \in DOMAIN d \ {k} |-> d[x]]
DictSet(d, k, v) == [x \in DOMAIN d \cup {k} |-> IF x = k THEN v ELSE d[x]]
EmptyDict == [x \in {} |-> 0]

VARIABLES
    active_connections,      \* Dict[int, WebSocket]
    pending_commands,        \* Dict[str, (int, Future)]: command id -> owner user id
    active_providers,        \* Set[int]
    provider_http_endpoints, \* Dict[int, str]
    lock,                    \* the connect() call holding self.lock across an await, or NoTask
    future,                  \* the asyncio.Future of each command
    wsPc,                    \* position of the handler of each websocket
    wsUser,                  \* user.id of the handler of each websocket
    wsEnd,                   \* how the handler's read loop or connect ended
    connArgs,                \* user_type, http_base_url of the connect() in progress
    closeCalled,             \* websockets whose close() the manager has called
    superseded,              \* history: websockets popped by a later connect()
    cmdPc,                   \* position of each send_command caller
    outcome,                 \* what the caller's call ended with
    cmdWs,                   \* the websocket whose send_text() a caller awaits
    resolutions,             \* history: number of times each future was resolved
    lostConn,                \* history: commands disconnect() found pending
    bPc,                     \* position of broadcast_command
    bSnapshot,               \* user_ids_to_send
    bResults,                \* the entries send_and_wait returned so far
    lastPick,                \* last return value of get_random_provider_info
    lastProviderId,          \* last return value of get_random_provider_id
    hbPc,                    \* position of the heartbeat task of each websocket
    cortex_engine_loaded,    \* main.py line 29: the engine is assumed loaded on the client
    currently_loaded_model_id, \* main.py line 30: the model assumed loaded, or NoModel
    chatPc,                  \* "idle", or "busy": a chat_completion request is in progress
    chatStep,                \* the command the request is at: engine, stop, start, chat
    chatTarget,              \* request.model of the request in progress
    chatCmd,                 \* the send_command_to_client call the request is at
    chatStatus               \* HTTP status the last finished request ended with

regVars == <<active_connections, active_providers, provider_http_endpoints>>
wsVars == <<wsPc, wsUser, wsEnd, connArgs, closeCalled, superseded>>
cmdVars == <<cmdPc, outcome, cmdWs>>
futVars == <<pending_commands, future, resolutions, lostConn>>
bVars == <<bPc, bSnapshot, bResults>>
hbVars == <<hbPc>>
stateVars == <<cortex_engine_loaded, currently_loaded_model_id>>
chatVars == <<chatPc, chatStep, chatTarget, chatCmd, chatStatus>>
mainVars == <<stateVars, chatVars>>
vars == <<regVars, lock, wsVars, cmdVars, futVars, bVars, lastPick, lastProviderId, hbVars, mainVars>>

\* ------------------------------------------------------------- asyncio.Future
FutNone == [state |-> "none", value |-> "none"]
FutPending == [state |-> "pending", value |-> "none"]
done(f) == f.state \in {"result", "exception", "cancelled"}
\* a future no caller and no entry refers to any more
FutDropped == [state |-> "dropped", value |-> "none"]

\* Optional[Tuple[int, str]]: some = FALSE is None
NonePick == [some |-> FALSE, id |-> 0, endpoint |-> <<>>]
\* lastPick before the first call
NotCalled == [some |-> FALSE, id |-> -1, endpoint |-> <<>>]
\* Optional[int]: None, and lastProviderId before the first call
NoneId == 0
IdNotCalled == -1

Init ==
    /\ active_connections = EmptyDict
    /\ pending_commands = EmptyDict
    /\ active_providers = {}
    /\ provider_http_endpoints = EmptyDict
    /\ lock = NoTask
    /\ future = [c \in Cmds |-> FutNone]
    /\ wsPc = [w \in WS |-> "new"]
    /\ wsUser = [w \in WS |-> 0]
    /\ wsEnd = [w \in WS |-> "none"]
    /\ connArgs = NoArgs
    /\ closeCalled = {}
    /\ superseded = {}
    /\ cmdPc = [c \in Cmds |-> "idle"]
    /\ outcome = [c \in Cmds |-> "none"]
    /\ cmdWs = [c \in Cmds |-> NoWebSocket]
    /\ resolutions = [c \in Cmds |-> 0]
    /\ lostConn = {}
    /\ bPc = "idle"
    /\ bSnapshot = {}
    /\ bResults = EmptyDict
    /\ lastPick = NotCalled
    /\ lastProviderId = IdNotCalled
    /\ hbPc = [w \in WS |-> "none"]
    /\ cortex_engine_loaded = FALSE
    /\ currently_loaded_model_id = NoModel
    /\ chatPc = "idle"
    /\ chatStep = "none"
    /\ chatTarget = NoModel
    /\ chatCmd = NoCmd
    /\ chatStatus = NoStatus

\* ------------------------------------------------------------- connect
\* ConnectBegin without the eviction of lines 33-35: the popped user id
\* stays in the provider set and keeps its endpoint.
ConnectBegin_NoEvict(w, user_id, user_type, http_base_url) ==
    /\ wsPc[w] = "new"
    /\ \A v \in WS : v < w => wsPc[v] # "new"
    /\ lock = NoTask
    /\ lock' = w
    /\ wsUser' = [wsUser EXCEPT ![w] = user_id]
    /\ connArgs' = [user_type |-> user_type, http_base_url |-> http_base_url]
    /\ IF user_id \in DOMAIN active_connections
       THEN /\ active_connections' = DictPop(active_connections, user_id)
            /\ closeCalled' = closeCalled \cup {active_connections[user_id]}
            /\ superseded' = superseded \cup {active_connections[user_id]}
            /\ wsPc' = [wsPc EXCEPT ![w] = "closing"]
            /\ UNCHANGED <<active_providers, provider_http_endpoints>>
       ELSE /\ wsPc' = [wsPc EXCEPT ![w] = "accepting"]
            /\ UNCHANGED <<regVars, closeCalled, superseded>>
    /\ UNCHANGED <<wsEnd, cmdVars, futVars, bVars, lastPick, lastProviderId, hbVars, mainVars>>

\* ConnectBegin with the close() call of line 38 left out.
ConnectBegin_NoClose(w, user_id, user_type, http_base_url) ==
    /\ wsPc[w] = "new"
    /\ \A v \in WS : v < w => wsPc[v] # "new"
    /\ lock = NoTask
    /\ lock' = w
    /\ wsUser' = [wsUser EXCEPT ![w] = user_id]
    /\ connArgs' = [user_type |-> user_type, http_base_url |-> http_base_url]
    /\ IF user_id \in DOMAIN active_connections
       THEN /\ active_connections' = DictPop(active_connections, user_id)
            /\ IF user_id \in active_providers
               THEN /\ active_providers' = active_providers \ {user_id}
                    /\ provider_http_endpoints' = DictPop(provider_http_endpoints, user_id)
               ELSE UNCHANGED <<active_providers, provider_http_endpoints>>
            /\ superseded' = superseded \cup {active_connections[user_id]}
            /\ wsPc' = [wsPc EXCEPT ![w] = "accepting"]
            /\ UNCHANGED closeCalled
       ELSE /\ wsPc' = [wsPc EXCEPT ![w] = "accepting"]
            /\ UNCHANGED <<regVars, closeCalled, superseded>>
    /\ UNCHANGED <<wsEnd, cmdVars, futVars, bVars, lastPick, lastProviderId, hbVars, mainVars>>

\* connect(), lines 29-45: the lock is taken, an existing connection of
\* user_id is popped and evicted from the provider set, and its close() is
\* called; the coroutine suspends in close() (or, with no existing
\* connection, in accept()) holding the lock.
ConnectBegin(w, user_id, user_type, http_base_url) ==
    /\ wsPc[w] = "new"
    \* websocket objects are numbered in the order of their connect() calls
    /\ \A v \in WS : v < w => wsPc[v] # "new"
    /\ lock = NoTask
    /\ lock' = w
    /\ wsUser' = [wsUser EXCEPT ![w] = user_id]
    /\ connArgs' = [user_type |-> user_type, http_base_url |-> http_base_url]
    /\ IF user_id \in DOMAIN active_connections
       THEN /\ active_connections' = DictPop(active_connections, user_id)
            /\ IF user_id \in active_providers
               THEN /\ active_providers' = active_providers \ {user_id}
                    /\ provider_http_endpoints' = DictPop(provider_http_endpoints, user_id)
               ELSE UNCHANGED <<active_providers, provider_http_endpoints>>
            /\ closeCalled' = closeCalled \cup {active_connections[user_id]}
            /\ superseded' = superseded \cup {active_connections[user_id]}
            /\ wsPc' = [wsPc EXCEPT ![w] = "closing"]
       ELSE /\ wsPc' = [wsPc EXCEPT ![w] = "accepting"]
            /\ UNCHANGED <<regVars, closeCalled, superseded>>
    /\ UNCHANGED <<wsEnd, cmdVars, futVars, bVars, lastPick, lastProviderId, hbVars, mainVars>>

\* lines 36-45: existing_ws.close() returns or raises (the exception is
\* logged and swallowed); in both cases websocket.accept() is called next.
ConnectCloseDone(w) ==
    /\ wsPc[w] = "closing"
    /\ lock = w
    /\ wsPc' = [wsPc EXCEPT ![w] = "accepting"]
    /\ UNCHANGED <<regVars, lock, wsUser, wsEnd, connArgs, closeCalled, superseded,
                   cmdVars, futVars, bVars, lastPick, lastProviderId, hbVars, mainVars>>

\* lines 49-60: what connect() records for a provider or a plain client.
EndpointAccepted(http_base_url) ==
    /\ Truthy(http_base_url)
    /\ \/ startswith(http_base_url.text, Str_http)
       \/ startswith(http_base_url.text, Str_https)

\* ConnectAcceptDone without the assignment of line 46: the accepted
\* websocket is not installed.
ConnectAcceptDone_NoInstall(w) ==
    /\ wsPc[w] = "accepting"
    /\ lock = w
    /\ IF connArgs.user_type = "provider"
       THEN /\ active_providers' = active_providers \cup {wsUser[w]}
            /\ IF EndpointAccepted(connArgs.http_base_url)
               THEN provider_http_endpoints' =
                        DictSet(provider_http_endpoints, wsUser[w],
                                rstrip(connArgs.http_base_url.text, "/"))
               ELSE UNCHANGED provider_http_endpoints
       ELSE /\ provider_http_endpoints' = DictPop(provider_http_endpoints, wsUser[w])
            /\ UNCHANGED active_providers
    /\ lock' = NoTask
    /\ connArgs' = NoArgs
    /\ wsPc' = [wsPc EXCEPT ![w] = "reading"]
    /\ hbPc' = [hbPc EXCEPT ![w] = "check"]
    /\ UNCHANGED <<active_connections, wsUser, wsEnd, closeCalled, superseded, cmdVars,
                   futVars, bVars, lastPick, lastProviderId, mainVars>>

\* lines 45-64: accept() returned; the websocket is installed, the provider
\* set and the endpoint map are updated, the lock is released and the
\* heartbeat task of the websocket is created.
ConnectAcceptDone(w) ==
    /\ wsPc[w] = "accepting"
    /\ lock = w
    /\ active_connections' = DictSet(active_connections, wsUser[w], w)
    /\ IF connArgs.user_type = "provider"
       THEN /\ active_providers' = active_providers \cup {wsUser[w]}
            /\ IF EndpointAccepted(connArgs.http_base_url)
               THEN provider_http_endpoints' =
                        DictSet(provider_http_endpoints, wsUser[w],
                                rstrip(connArgs.http_base_url.text, "/"))
               ELSE UNCHANGED provider_http_endpoints
       ELSE /\ provider_http_endpoints' = DictPop(provider_http_endpoints, wsUser[w])
            /\ UNCHANGED active_providers
    /\ lock' = NoTask
    /\ connArgs' = NoArgs
    /\ wsPc' = [wsPc EXCEPT ![w] = "reading"]
    /\ hbPc' = [hbPc EXCEPT ![w] = "check"]
    /\ UNCHANGED <<wsUser, wsEnd, closeCalled, superseded, cmdVars, futVars, bVars,
                   lastPick, lastProviderId, mainVars>>

\* ConnectAcceptRaise without the release that "async with" makes when the
\* exception leaves the block: the lock stays with the task that ended.
ConnectAcceptRaise_KeepLock(w) ==
    /\ wsPc[w] = "accepting"
    /\ lock = w
    /\ connArgs' = NoArgs
    /\ wsPc' = [wsPc EXCEPT ![w] = "ended"]
    /\ wsEnd' = [wsEnd EXCEPT ![w] = "accept_raised"]
    /\ UNCHANGED <<regVars, lock, wsUser, closeCalled, superseded, cmdVars, futVars, bVars, lastPick, lastProviderId, hbVars, mainVars>>

\* line 45: accept() raised; "async with" releases the lock and the
\* exception leaves connect() and the handler (main.py line 435 is outside
\* the try block).
ConnectAcceptRaise(w) ==
    /\ wsPc[w] = "accepting"
    /\ lock = w
    /\ lock' = NoTask
    /\ connArgs' = NoArgs
    /\ wsPc' = [wsPc EXCEPT ![w] = "ended"]
    /\ wsEnd' = [wsEnd EXCEPT ![w] = "accept_raised"]
    /\ UNCHANGED <<regVars, wsUser, closeCalled, superseded, cmdVars, futVars, bVars, lastPick, lastProviderId, hbVars, mainVars>>

\* ------------------------------------------------------------- disconnect
\* The commands disconnect(user_id) collects in commands_to_cancel.
commands_to_cancel(user_id) ==
    {c \in DOMAIN pending_commands : pending_commands[c] = user_id}

\* disconnect cancelling every pending command, whoever owns it (the test
\* "uid == user_id" of line 86 left out).
disconnect_CancelAll(user_id) ==
    /\ lock = NoTask
    /\ active_connections' = DictPop(active_connections, user_id)
    /\ provider_http_endpoints' = DictPop(provider_http_endpoints, user_id)
    /\ active_providers' = active_providers \ {user_id}
    /\ pending_commands' = EmptyDict
    /\ future' = [c \in Cmds |->
                    IF c \in DOMAIN pending_commands /\ ~done(future[c])
                    THEN [state |-> "exception", value |-> "disconnected"]
                    ELSE future[c]]
    /\ resolutions' = [c \in Cmds |->
                    IF c \in DOMAIN pending_commands /\ ~done(future[c])
                    THEN resolutions[c] + 1
                    ELSE resolutions[c]]
    /\ lostConn' = lostConn \cup {c \in commands_to_cancel(user_id) : ~done(future[c])}

\* disconnect removing the entries of user_id without resolving their
\* futures (the set_exception of line 95 left out).
disconnect_NoCancel(user_id) ==
    /\ lock = NoTask
    /\ active_connections' = DictPop(active_connections, user_id)
    /\ provider_http_endpoints' = DictPop(provider_http_endpoints, user_id)
    /\ active_providers' = active_providers \ {user_id}
    /\ pending_commands' =
           [c \in DOMAIN pending_commands \ commands_to_cancel(user_id) |-> pending_commands[c]]
    /\ lostConn' = lostConn \cup {c \in commands_to_cancel(user_id) : ~done(future[c])}
    /\ UNCHANGED <<future, resolutions>>

\* disconnect(), lines 69-99, on the manager's state (the caller holds no
\* lock; the body has no await, so it runs to the end once the lock is free).
disconnect(user_id) ==
    /\ lock = NoTask
    /\ active_connections' = DictPop(active_connections, user_id)
    /\ provider_http_endpoints' = DictPop(provider_http_endpoints, user_id)
    /\ active_providers' = active_providers \ {user_id}
    /\ pending_commands' =
           [c \in DOMAIN pending_commands \ commands_to_cancel(user_id) |-> pending_commands[c]]
    /\ future' = [c \in Cmds |->
                    IF c \in commands_to_cancel(user_id) /\ ~done(future[c])
                    THEN [state |-> "exception", value |-> "disconnected"]
                    ELSE future[c]]
    /\ resolutions' = [c \in Cmds |->
                    IF c \in commands_to_cancel(user_id) /\ ~done(future[c])
                    THEN resolutions[c] + 1
                    ELSE resolutions[c]]
    /\ lostConn' = lostConn \cup {c \in commands_to_cancel(user_id) : ~done(future[c])}

\* main.py lines 452-464: the read loop ended; finally: manager.disconnect(user.id).
EndpointFinally(w) ==
    /\ wsPc[w] = "cleanup"
    /\ disconnect(wsUser[w])
    /\ wsPc' = [wsPc EXCEPT ![w] = "ended"]
    /\ UNCHANGED <<lock, wsUser, wsEnd, connArgs, closeCalled, superseded, cmdVars, bVars, lastPick, lastProviderId, hbVars, mainVars>>

\* main.py lines 448, 452-459: receive_text() raises WebSocketDisconnect
\* (the peer went away, or the manager closed this websocket); the handler
\* of the designated client resets the server's assumed state.
EndpointReadEnds(w) ==
    /\ wsPc[w] = "reading"
    /\ wsPc' = [wsPc EXCEPT ![w] = "cleanup"]
    /\ wsEnd' = [wsEnd EXCEPT ![w] = "WebSocketDisconnect"]
    /\ IF wsUser[w] = TARGET_CLIENT_USER_ID
       THEN /\ currently_loaded_model_id' = NoModel
            /\ cortex_engine_loaded' = FALSE
       ELSE UNCHANGED stateVars
    /\ UNCHANGED <<regVars, lock, wsUser, connArgs, closeCalled, superseded,
                   cmdVars, futVars, bVars, lastPick, lastProviderId, hbVars, chatVars>>

\* ------------------------------------------------------------- heartbeat
\* lines 106, 115: websocket w is the one registered for its user id.
Registered(w) ==
    /\ wsUser[w] \in DOMAIN active_connections
    /\ active_connections[wsUser[w]] = w

\* lines 103-111: the check before the sleep, under the lock; on a mismatch
\* the loop is left, else the task sleeps heartbeat_interval.
HeartbeatCheck(w) ==
    /\ hbPc[w] = "check"
    /\ lock = NoTask
    /\ hbPc' = [hbPc EXCEPT ![w] = IF Registered(w) THEN "sleeping" ELSE "ended_mismatch"]
    /\ UNCHANGED <<regVars, lock, wsVars, cmdVars, futVars, bVars, lastPick, lastProviderId, mainVars>>

\* HeartbeatWake without the check of lines 114-117: the ping is sent
\* whatever happened during the sleep.
HeartbeatWake_NoRecheck(w) ==
    /\ hbPc[w] = "sleeping"
    /\ hbPc' = [hbPc EXCEPT ![w] = "sending"]
    /\ UNCHANGED <<regVars, lock, wsVars, cmdVars, futVars, bVars, lastPick, lastProviderId, mainVars>>

\* lines 111-123: the sleep is over; the check is made again under the lock
\* and, the lock released, send_json({"type": "ping"}) is called in the
\* same run.
HeartbeatWake(w) ==
    /\ hbPc[w] = "sleeping"
    /\ lock = NoTask
    /\ hbPc' = [hbPc EXCEPT ![w] = IF Registered(w) THEN "sending" ELSE "ended_mismatch"]
    /\ UNCHANGED <<regVars, lock, wsVars, cmdVars, futVars, bVars, lastPick, lastProviderId, mainVars>>

\* line 123: send_json() returned; the loop starts over.
HeartbeatSendDone(w) ==
    /\ hbPc[w] = "sending"
    /\ hbPc' = [hbPc EXCEPT ![w] = "check"]
    /\ UNCHANGED <<regVars, lock, wsVars, cmdVars, futVars, bVars, lastPick, lastProviderId, mainVars>>

\* lines 139-148: send_json() raised WebSocketDisconnect or another
\* exception; both except clauses log and leave the loop, and the task ends.
HeartbeatSendRaise(w) ==
    /\ hbPc[w] = "sending"
    /\ hbPc' = [hbPc EXCEPT ![w] = "ended_send_failed"]
    /\ UNCHANGED <<regVars, lock, wsVars, cmdVars, futVars, bVars, lastPick, lastProviderId, mainVars>>

\* ------------------------------------------------------------- send_command
\* Who may call send_command for command c: a send_command_to_client call
\* (main.py line 98; calls are numbered in the order they are made), or the
\* send_and_wait task of a running broadcast (line 201), or the
\* chat_completion request in progress (main.py lines 217, 237, 250, 268).
MayCall(c, user_id) ==
    \/ /\ c \in Direct
       /\ \A d \in Direct : d < c => cmdPc[d] # "idle"
    \/ /\ c = RecipientId(user_id)
       /\ bPc = "gathering"
       /\ user_id \in bSnapshot
    \/ /\ c \in ChatCmds
       /\ chatPc = "busy"
       /\ chatCmd = c
       /\ user_id = TARGET_CLIENT_USER_ID

\* send_command storing the entry before looking the target up: the entry
\* of a command to an unregistered user stays in the table.
send_command_StoreFirst(c, user_id) ==
    /\ cmdPc[c] = "idle"
    /\ MayCall(c, user_id)
    /\ lock = NoTask
    /\ pending_commands' = DictSet(pending_commands, c, user_id)
    /\ future' = [future EXCEPT ![c] = FutPending]
    /\ IF user_id \notin DOMAIN active_connections
       THEN /\ cmdPc' = [cmdPc EXCEPT ![c] = "done"]
            /\ outcome' = [outcome EXCEPT ![c] = "NotConnected"]
            /\ UNCHANGED cmdWs
       ELSE /\ cmdWs' = [cmdWs EXCEPT ![c] = active_connections[user_id]]
            /\ cmdPc' = [cmdPc EXCEPT ![c] = "sending"]
            /\ UNCHANGED outcome
    /\ UNCHANGED <<regVars, lock, wsVars, resolutions, lostConn, bVars, lastPick, lastProviderId, hbVars, mainVars>>

\* send_command writing to a websocket of user_id obtained before the lock
\* was taken (any websocket that was once installed for user_id), not to
\* the one found in active_connections under the lock.
send_command_StaleLookup(c, user_id) ==
    /\ cmdPc[c] = "idle"
    /\ MayCall(c, user_id)
    /\ lock = NoTask
    /\ IF user_id \notin DOMAIN active_connections
       THEN /\ cmdPc' = [cmdPc EXCEPT ![c] = "done"]
            /\ outcome' = [outcome EXCEPT ![c] = "NotConnected"]
            /\ UNCHANGED <<pending_commands, future, cmdWs>>
       ELSE /\ \E w \in WS : /\ wsUser[w] = user_id
                             /\ hbPc[w] # "none"
                             /\ cmdWs' = [cmdWs EXCEPT ![c] = w]
            /\ pending_commands' = DictSet(pending_commands, c, user_id)
            /\ future' = [future EXCEPT ![c] = FutPending]
            /\ cmdPc' = [cmdPc EXCEPT ![c] = "sending"]
            /\ UNCHANGED outcome
    /\ UNCHANGED <<regVars, lock, wsVars, resolutions, lostConn, bVars, lastPick, lastProviderId, hbVars, mainVars>>

\* send_command(), lines 153-171: under the lock, the target is looked up;
\* if absent ConnectionError is raised, else the command id and the future
\* are created and stored and, the lock released, send_text() is called.
send_command(c, user_id) ==
    /\ cmdPc[c] = "idle"
    /\ MayCall(c, user_id)
    /\ lock = NoTask
    /\ IF user_id \notin DOMAIN active_connections
       THEN /\ cmdPc' = [cmdPc EXCEPT ![c] = "done"]
            /\ outcome' = [outcome EXCEPT ![c] = "NotConnected"]
            /\ UNCHANGED <<pending_commands, future, cmdWs>>
       ELSE /\ cmdWs' = [cmdWs EXCEPT ![c] = active_connections[user_id]]
            /\ pending_commands' = DictSet(pending_commands, c, user_id)
            /\ future' = [future EXCEPT ![c] = FutPending]
            /\ cmdPc' = [cmdPc EXCEPT ![c] = "sending"]
            /\ UNCHANGED outcome
    /\ UNCHANGED <<regVars, lock, wsVars, resolutions, lostConn, bVars, lastPick, lastProviderId, hbVars, mainVars>>

\* lines 171-173: send_text() returned (the frame was written); the future
\* is handed to the caller, which awaits it under wait_for.
SendReturn(c) ==
    /\ cmdPc[c] = "sending"
    /\ cmdPc' = [cmdPc EXCEPT ![c] = "waiting"]
    /\ cmdWs' = [cmdWs EXCEPT ![c] = NoWebSocket]
    /\ UNCHANGED <<regVars, lock, wsVars, outcome, futVars, bVars, lastPick, lastProviderId, hbVars, mainVars>>

\* lines 174-176: send_text() raised (whether or not the frame left); the
\* except block waits for the lock.
SendRaise(c) ==
    /\ cmdPc[c] = "sending"
    /\ cmdPc' = [cmdPc EXCEPT ![c] = "send_failed"]
    /\ cmdWs' = [cmdWs EXCEPT ![c] = NoWebSocket]
    /\ UNCHANGED <<regVars, lock, wsVars, outcome, futVars, bVars, lastPick, lastProviderId, hbVars, mainVars>>

\* SendFailCleanup without the done() test of line 179: the send-failure
\* error replaces whatever the future of a popped entry held.
SendFailCleanup_NoDoneTest(c) ==
    /\ cmdPc[c] = "send_failed"
    /\ lock = NoTask
    /\ pending_commands' = DictPop(pending_commands, c)
    /\ future' = [future EXCEPT ![c] = [state |-> "exception", value |-> "send_error"]]
    /\ resolutions' = [resolutions EXCEPT ![c] = @ + 1]
    /\ cmdPc' = [cmdPc EXCEPT ![c] = "done"]
    /\ outcome' = [outcome EXCEPT ![c] = "SendFailed"]
    /\ UNCHANGED cmdWs
    /\ UNCHANGED <<regVars, lock, wsVars, lostConn, bVars, lastPick, lastProviderId, hbVars, mainVars>>

\* SendFailCleanup without the pop of line 178: the future gets the
\* exception, the entry stays in the table.
SendFailCleanup_NoPop(c) ==
    /\ cmdPc[c] = "send_failed"
    /\ lock = NoTask
    /\ IF c \in DOMAIN pending_commands /\ ~done(future[c])
       THEN /\ future' = [future EXCEPT ![c] = [state |-> "exception", value |-> "send_error"]]
            /\ resolutions' = [resolutions EXCEPT ![c] = @ + 1]
       ELSE UNCHANGED <<future, resolutions>>
    /\ cmdPc' = [cmdPc EXCEPT ![c] = "done"]
    /\ outcome' = [outcome EXCEPT ![c] = "SendFailed"]
    /\ UNCHANGED cmdWs
    /\ UNCHANGED <<regVars, lock, wsVars, pending_commands, lostConn, bVars, lastPick, lastProviderId, hbVars, mainVars>>

\* SendFailCleanup without the set_exception of line 180.
SendFailCleanup_NoResolve(c) ==
    /\ cmdPc[c] = "send_failed"
    /\ lock = NoTask
    /\ pending_commands' = DictPop(pending_commands, c)
    /\ cmdPc' = [cmdPc EXCEPT ![c] = "done"]
    /\ outcome' = [outcome EXCEPT ![c] = "SendFailed"]
    /\ UNCHANGED cmdWs
    /\ UNCHANGED <<regVars, lock, wsVars, future, resolutions, lostConn, bVars, lastPick, lastProviderId, hbVars, mainVars>>

\* lines 176-183: the entry is popped under the lock, its future (if still
\* there and not done) gets the exception, ConnectionError is raised.
SendFailCleanup(c) ==
    /\ cmdPc[c] = "send_failed"
    /\ lock = NoTask
    /\ pending_commands' = DictPop(pending_commands, c)
    /\ IF c \in DOMAIN pending_commands /\ ~done(future[c])
       THEN /\ future' = [future EXCEPT ![c] = [state |-> "exception", value |-> "send_error"]]
            /\ resolutions' = [resolutions EXCEPT ![c] = @ + 1]
       ELSE UNCHANGED <<future, resolutions>>
    /\ cmdPc' = [cmdPc EXCEPT ![c] = "done"]
    /\ outcome' = [outcome EXCEPT ![c] = "SendFailed"]
    /\ UNCHANGED cmdWs
    /\ UNCHANGED <<regVars, lock, wsVars, lostConn, bVars, lastPick, lastProviderId, hbVars, mainVars>>

\* What "await asyncio.wait_for(future, timeout)" gives once the future is
\* done: its result string, or its exception.
WaitResult(f) ==
    IF f.state = "result" THEN f.value
    ELSE IF f.value = "disconnected" THEN "Disconnected" ELSE "SendFailed"

\* main.py line 99 / dispatcher line 202: the awaited future is done.
WaitReturn(c) ==
    /\ cmdPc[c] = "waiting"
    /\ future[c].state \in {"result", "exception"}
    /\ cmdPc' = [cmdPc EXCEPT ![c] = "done"]
    /\ outcome' = [outcome EXCEPT ![c] = WaitResult(future[c])]
    /\ UNCHANGED cmdWs
    /\ UNCHANGED <<regVars, lock, wsVars, futVars, bVars, lastPick, lastProviderId, hbVars, mainVars>>

\* main.py lines 99, 123 / dispatcher lines 202, 204: the timeout of
\* wait_for elapses first; wait_for cancels the future and raises
\* TimeoutError.  Neither caller touches pending_commands.  The timeout is
\* taken to win only while the future is pending: a future that is already
\* done is returned by WaitReturn.
Timeout(c) ==
    /\ cmdPc[c] = "waiting"
    /\ ~done(future[c])
    /\ future' = [future EXCEPT ![c] = [state |-> "cancelled", value |-> "none"]]
    /\ resolutions' = [resolutions EXCEPT ![c] = @ + 1]
    /\ cmdPc' = [cmdPc EXCEPT ![c] = "done"]
    /\ outcome' = [outcome EXCEPT ![c] = "TimeoutError"]
    /\ UNCHANGED cmdWs
    /\ UNCHANGED <<regVars, lock, wsVars, pending_commands, lostConn,
                   bVars, lastPick, lastProviderId, hbVars, mainVars>>

\* ------------------------------------------------------------- inbound frames
\* The value of the "command_id" key of a frame: absent, falsy (null, "",
\* 0, [], {}), a non-empty list or dict, or a non-empty string.  A string
\* is the id of command id (id = 0: a string, or a number, that is no
\* command's id).
CommandIdValues ==
    {[kind |-> k, id |-> 0] : k \in {"absent", "falsy", "unhashable"}}
        \cup {[kind |-> "str", id |-> c] : c \in Cmds \cup {0}}
\* The value of the "result" key: absent, a JSON value, or a JSON object
\* with a truthy "error" member.
ResultValues == {"absent", "value", "error_dict"}
Frame(ty, kind, id, res) ==
    [json |-> TRUE, object |-> TRUE, type |-> ty,
     command_id |-> [kind |-> kind, id |-> id], result |-> res]
\* text that is not JSON; JSON that is not an object
NonJson == [Frame("absent", "absent", 0, "absent") EXCEPT !.json = FALSE, !.object = FALSE]
NonObject == [Frame("absent", "absent", 0, "absent") EXCEPT !.object = FALSE]
\* the frames that name a command of C (or the unknown id 0) with the result
\* values R: malformed frames, objects without a usable command_id, pongs
\* (with or without a command id) and replies
FramesFor(C, R) ==
    {NonJson, NonObject}
        \cup {Frame("absent", k, 0, "absent") : k \in {"absent", "falsy", "unhashable"}}
        \cup {Frame("pong", "absent", 0, "absent")}
        \cup {Frame("pong", "str", c, "value") : c \in C}
        \cup {Frame("absent", "str", c, r) : c \in C \cup {0}, r \in R}
\* the frames of the specifications without chat requests: an id no caller
\* ever issues is handled as the unknown id 0 is
FramesOf(R) == FramesFor(Direct \cup Recipients, R)
Frames == FramesOf(ResultValues)

\* A reply of error shape for command c: an object with the keys
\* "command_id" and "error" and no "result" key.
ErrorFrame(c) ==
    [json |-> TRUE, object |-> TRUE, type |-> "absent",
     command_id |-> [kind |-> "str", id |-> c], result |-> "absent", error |-> "boom"]
\* every frame, the error-shaped replies included
AllFrames == Frames \cup {ErrorFrame(c) : c \in Direct \cup Recipients}

\* Parse without the pong test of lines 233-235: a pong that carries a
\* command_id is handled as a reply.
Parse_NoPongTest(message) ==
    IF ~message.json \/ ~message.object
         \/ message.command_id.kind \in {"absent", "falsy"}
    THEN [returned |-> TRUE, command_id |-> message.command_id, result_data |-> "null"]
    ELSE [returned |-> FALSE, command_id |-> message.command_id,
          result_data |-> IF message.result = "absent" THEN "null" ELSE message.result]

\* receive_response(), lines 229-249: parsing.  returned = TRUE: the method
\* returned inside the try block (pong, no command_id, JSONDecodeError, or
\* the AttributeError of data.get on a non-object, caught at line 247).
Parse(message) ==
    IF ~message.json \/ ~message.object
         \/ message.type = "pong"
         \/ message.command_id.kind \in {"absent", "falsy"}
    THEN [returned |-> TRUE, command_id |-> message.command_id, result_data |-> "null"]
    ELSE [returned |-> FALSE, command_id |-> message.command_id,
          result_data |-> IF message.result = "absent" THEN "null" ELSE message.result]

\* receive_response handing a reply to the oldest pending command instead
\* of the one its command_id names (matching by arrival order).
receive_response_Oldest(w, message) ==
    LET p == Parse(message)
        cid == IF DOMAIN pending_commands = {} THEN p.command_id.id
               ELSE CHOOSE c \in DOMAIN pending_commands :
                        \A d \in DOMAIN pending_commands : c <= d
    IN
    /\ wsPc[w] = "reading"
    /\ IF p.returned
       THEN UNCHANGED <<wsPc, wsEnd, futVars>>
       ELSE /\ lock = NoTask
            /\ IF p.command_id.kind = "unhashable" /\ DOMAIN pending_commands # {}
               THEN /\ wsPc' = [wsPc EXCEPT ![w] = "cleanup"]
                    /\ wsEnd' = [wsEnd EXCEPT ![w] = "receive_response_raised"]
                    /\ UNCHANGED futVars
               ELSE /\ pending_commands' = DictPop(pending_commands, cid)
                    /\ IF cid \in DOMAIN pending_commands /\ ~done(future[cid])
                       THEN /\ future' = [future EXCEPT ![cid] =
                                            [state |-> "result", value |-> p.result_data]]
                            /\ resolutions' = [resolutions EXCEPT ![cid] = @ + 1]
                       ELSE UNCHANGED <<future, resolutions>>
                    /\ UNCHANGED <<wsPc, wsEnd, lostConn>>
    /\ UNCHANGED <<regVars, lock, wsUser, connArgs, closeCalled, superseded, cmdVars,
                   bVars, lastPick, lastProviderId, hbVars, mainVars>>

\* receive_response setting the result without the done() test of line 258
\* and without the except clause of line 263: InvalidStateError leaves it.
receive_response_Unguarded(w, message) ==
    LET p == Parse(message)
        cid == p.command_id.id
    IN
    /\ wsPc[w] = "reading"
    /\ IF p.returned
       THEN UNCHANGED <<wsPc, wsEnd, futVars>>
       ELSE /\ lock = NoTask
            /\ IF p.command_id.kind = "unhashable" /\ DOMAIN pending_commands # {}
               THEN /\ wsPc' = [wsPc EXCEPT ![w] = "cleanup"]
                    /\ wsEnd' = [wsEnd EXCEPT ![w] = "receive_response_raised"]
                    /\ UNCHANGED futVars
               ELSE /\ pending_commands' = DictPop(pending_commands, cid)
                    /\ IF cid \in DOMAIN pending_commands /\ ~done(future[cid])
                       THEN /\ future' = [future EXCEPT ![cid] =
                                            [state |-> "result", value |-> p.result_data]]
                            /\ resolutions' = [resolutions EXCEPT ![cid] = @ + 1]
                            /\ UNCHANGED <<wsPc, wsEnd>>
                       ELSE /\ UNCHANGED <<future, resolutions>>
                            /\ IF cid \in DOMAIN pending_commands
                               THEN /\ wsPc' = [wsPc EXCEPT ![w] = "cleanup"]
                                    /\ wsEnd' = [wsEnd EXCEPT ![w] = "receive_response_raised"]
                               ELSE UNCHANGED <<wsPc, wsEnd>>
                    /\ UNCHANGED lostConn
    /\ UNCHANGED <<regVars, lock, wsUser, connArgs, closeCalled, superseded, cmdVars,
                   bVars, lastPick, lastProviderId, hbVars, mainVars>>

\* main.py lines 448-451 with receive_response(), lines 226-272: the
\* handler of websocket w receives a text frame and awaits
\* manager.receive_response(data); an exception leaving it ends the read
\* loop (main.py line 460).
receive_response(w, message) ==
    LET p == Parse(message)
        cid == p.command_id.id
    IN
    /\ wsPc[w] = "reading"
    /\ IF p.returned
       THEN UNCHANGED <<wsPc, wsEnd, futVars>>
       ELSE /\ lock = NoTask
            /\ IF p.command_id.kind = "unhashable" /\ DOMAIN pending_commands # {}
               \* line 253: dict.pop(command_id, None) hashes the key of a
               \* non-empty dict and raises TypeError: unhashable type
               THEN /\ wsPc' = [wsPc EXCEPT ![w] = "cleanup"]
                    /\ wsEnd' = [wsEnd EXCEPT ![w] = "receive_response_raised"]
                    /\ UNCHANGED futVars
               ELSE /\ pending_commands' = DictPop(pending_commands, cid)
                    /\ IF cid \in DOMAIN pending_commands /\ ~done(future[cid])
                       THEN /\ future' = [future EXCEPT ![cid] =
                                            [state |-> "result", value |-> p.result_data]]
                            /\ resolutions' = [resolutions EXCEPT ![cid] = @ + 1]
                       ELSE UNCHANGED <<future, resolutions>>
                    /\ UNCHANGED <<wsPc, wsEnd, lostConn>>
    /\ UNCHANGED <<regVars, lock, wsUser, connArgs, closeCalled, superseded, cmdVars,
                   bVars, lastPick, lastProviderId, hbVars, mainVars>>

\* The frames a peer can send: a string command_id is the id of a command
\* whose send_text() has been called (the frame may reach the peer, and the
\* reply come back, before send_text() returns), or no command's id: a
\* uuid4 id cannot be guessed before it is sent.
Sendable(message) ==
    IF message.command_id.id = 0
    THEN TRUE
    ELSE message.command_id.kind = "str" /\ future[message.command_id.id].state # "none"

\* ------------------------------------------------------------- broadcast_command
\* lines 188-217: the snapshot is taken under the lock; one send_and_wait
\* coroutine per user is handed to gather.
BroadcastBegin ==
    /\ bPc = "idle"
    /\ lock = NoTask
    /\ bSnapshot' = DOMAIN active_connections
    /\ bPc' = "gathering"
    /\ UNCHANGED <<regVars, lock, wsVars, cmdVars, futVars, bResults, lastPick, lastProviderId, hbVars, mainVars>>

\* send_and_wait without the "except asyncio.TimeoutError" clause of line
\* 204: the timeout falls through to "except Exception".
send_and_wait_NoTimeoutClause(o) ==
    CASE o \in {"null", "value", "error_dict"} -> o
      [] o = "NotConnected" -> "error: User is not connected"
      [] o = "SendFailed" -> "error: Failed to send command to user"
      [] o = "Disconnected" -> "error: User disconnected while waiting for response."
      [] OTHER -> "error: Unexpected server error during broadcast."

\* send_and_wait with ConnectionError missing from the tuple of line 207:
\* the errors of send_command leave send_and_wait and fail gather.
send_and_wait_NoConnectionErrorClause(o) ==
    CASE o \in {"null", "value", "error_dict"} -> o
      [] o = "TimeoutError" -> "error: Timeout waiting for response."
      [] OTHER -> "raise"

\* send_and_wait, lines 200-212: the map entry for what send_command and
\* wait_for ended with ("raise": the exception leaves send_and_wait).
send_and_wait(o) ==
    CASE o \in {"null", "value", "error_dict"} -> o
      [] o = "TimeoutError" -> "error: Timeout waiting for response."
      [] o = "NotConnected" -> "error: User is not connected"
      [] o = "SendFailed" -> "error: Failed to send command to user"
      [] o = "Disconnected" -> "error: User disconnected while waiting for response."
      [] OTHER -> "error: Unexpected server error during broadcast."

\* lines 217-224: gather returns once every send_and_wait has returned (or
\* raises the first exception one of them raised); the map is filled.
BroadcastGather ==
    /\ bPc = "gathering"
    /\ \A u \in bSnapshot : cmdPc[RecipientId(u)] = "done"
    /\ LET entries == [u \in bSnapshot |-> send_and_wait(outcome[RecipientId(u)])]
       IN IF \E u \in bSnapshot : entries[u] = "raise"
          THEN /\ bPc' = "failed"
               /\ UNCHANGED bResults
          ELSE /\ bPc' = "done"
               /\ bResults' = entries
    /\ UNCHANGED <<regVars, lock, wsVars, cmdVars, futVars, bSnapshot, lastPick, lastProviderId, hbVars, mainVars>>

\* ------------------------------------------------------------- provider selection
\* get_random_provider_info choosing among all active providers (the
\* filter of line 283 and the test of line 290 left out).
get_random_provider_info_Fallback ==
    IF active_providers = {} THEN {NonePick}
    ELSE {[some |-> TRUE, id |-> chosen_id,
           endpoint |-> IF chosen_id \in DOMAIN provider_http_endpoints
                        THEN provider_http_endpoints[chosen_id] ELSE <<>>] :
          chosen_id \in active_providers}

\* get_random_provider_info(), lines 279-294: the set of values the call
\* can return in the current state (random.choice picks any element).
get_random_provider_info ==
    LET eligible_provider_ids ==
            {pid \in active_providers : pid \in DOMAIN provider_http_endpoints}
    IN IF active_providers = {} THEN {NonePick}
       ELSE IF eligible_provider_ids = {} THEN {NonePick}
       ELSE {IF Len(provider_http_endpoints[chosen_id]) = 0
             THEN NonePick
             ELSE [some |-> TRUE, id |-> chosen_id,
                   endpoint |-> provider_http_endpoints[chosen_id]] :
             chosen_id \in eligible_provider_ids}

\* A caller (the streaming proxy) calls get_random_provider_info(); the
\* method takes no lock, so it may run while connect() is suspended.
PickProviderInfo ==
    /\ lastPick' \in get_random_provider_info
    /\ UNCHANGED <<regVars, lock, wsVars, cmdVars, futVars, bVars, lastProviderId, hbVars, mainVars>>

\* get_random_provider_id choosing among the providers with a recorded
\* endpoint only, as get_random_provider_info does.
get_random_provider_id_EndpointOnly ==
    LET eligible_provider_ids ==
            {pid \in active_providers : pid \in DOMAIN provider_http_endpoints}
    IN IF eligible_provider_ids = {} THEN {NoneId} ELSE eligible_provider_ids

\* get_random_provider_id(), lines 296-300: the set of values the call can
\* return in the current state.
get_random_provider_id ==
    IF active_providers = {} THEN {NoneId} ELSE active_providers

\* A caller calls get_random_provider_id(); the method takes no lock.
PickProviderId ==
    /\ lastProviderId' \in get_random_provider_id
    /\ UNCHANGED <<regVars, lock, wsVars, cmdVars, futVars, bVars, lastPick, hbVars, mainVars>>

\* ------------------------------------------------------------- specifications
\* The connection lifecycle of the websockets W, with the connect()
\* arguments drawn from A.
Lifecycle(A, W) ==
    \/ \E w \in W, u \in Users, a \in A : ConnectBegin(w, u, a.user_type, a.http_base_url)
    \/ \E w \in W : ConnectCloseDone(w)
    \/ \E w \in W : ConnectAcceptDone(w)
    \/ \E w \in W : ConnectAcceptRaise(w)
    \/ \E w \in W : EndpointReadEnds(w)
    \/ \E w \in W : EndpointFinally(w)

\* The steps of the send_command callers in C and the inbound frames in F.
Commands(C, F) ==
    \/ \E w \in WS, m \in F : Sendable(m) /\ receive_response(w, m)
    \/ \E c \in C, u \in Users : send_command(c, u)
    \/ \E c \in C : SendReturn(c)
    \/ \E c \in C : SendRaise(c)
    \/ \E c \in C : SendFailCleanup(c)
    \/ \E c \in C : WaitReturn(c)
    \/ \E c \in C : Timeout(c)

\* connect() arguments of the command specifications: the command paths
\* read neither the provider set nor the endpoint map.
PlainArgs ==
    {[user_type |-> "client", http_base_url |-> NoUrl],
     [user_type |-> "provider", http_base_url |-> [given |-> TRUE, text |-> Url_good]]}

\* Connections, send_command_to_client callers and inbound frames.
Next ==
    \/ Lifecycle(PlainArgs, 1..CmdWS)
    \/ Commands(Direct, FramesOf({"value"}))

Spec == Init /\ [][Next]_vars

\* Connections with every kind of connect() argument, and provider selection.
NextRegistry ==
    \/ Lifecycle(ConnArgs, WS)
    \/ PickProviderInfo

SpecRegistry == Init /\ [][NextRegistry]_vars

\* Connections, one broadcast_command call and inbound frames.
NextBroadcast ==
    \/ Lifecycle(PlainArgs, 1..CmdWS)
    \/ BroadcastBegin
    \/ Commands(Recipients, FramesOf({"value"}))
    \/ BroadcastGather

SpecBroadcast == Init /\ [][NextBroadcast]_vars

\* Connections with every kind of connect() argument, and the selection of
\* a provider id.
NextProviderId ==
    \/ Lifecycle(ConnArgs, WS)
    \/ PickProviderId

SpecProviderId == Init /\ [][NextProviderId]_vars

\* The steps of the heartbeat tasks of the websockets W.
Heartbeat(W) ==
    \/ \E w \in W : HeartbeatCheck(w)
    \/ \E w \in W : HeartbeatWake(w)
    \/ \E w \in W : HeartbeatSendDone(w)
    \/ \E w \in W : HeartbeatSendRaise(w)

\* Connections, their heartbeat tasks, one send_command_to_client caller and
\* inbound frames.
NextHeartbeat ==
    \/ Lifecycle(PlainArgs, 1..CmdWS)
    \/ Heartbeat(1..CmdWS)
    \/ Commands({1}, FramesOf({"value"}))

SpecHeartbeat == Init /\ [][NextHeartbeat]_vars

\* connect() arguments of the reply specification
ClientArgs == {[user_type |-> "client", http_base_url |-> NoUrl]}

\* Connections, send_command_to_client callers and inbound frames with
\* every kind of reply payload.
NextReplies ==
    \/ Lifecycle(ClientArgs, 1..CmdWS)
    \/ Commands(Direct, AllFrames)

SpecReplies == Init /\ [][NextReplies]_vars

\* The same with the scheduling the event loop gives: a task that can run
\* does run (a sleep ends, a free lock is acquired), and a transport call
\* made by connect() or by a heartbeat returns or raises.
FairSpecHeartbeat ==
    /\ SpecHeartbeat
    /\ \A w \in 1..CmdWS :
          /\ WF_vars(HeartbeatCheck(w))
          /\ WF_vars(HeartbeatWake(w))
          /\ WF_vars(HeartbeatSendDone(w) \/ HeartbeatSendRaise(w))
          /\ WF_vars(ConnectCloseDone(w))
          /\ WF_vars(ConnectAcceptDone(w) \/ ConnectAcceptRaise(w))

\* The heartbeat specification with the scheduling of the event loop and of
\* asyncio.Lock: every transport call (close, accept, send_text, send_json)
\* returns or raises, and a task that waits for the lock (a heartbeat check,
\* disconnect in a handler's finally block, the cleanup of a failed send)
\* runs once the lock is free.
FairSpecLock ==
    /\ SpecHeartbeat
    /\ \A w \in 1..CmdWS :
          /\ WF_vars(ConnectCloseDone(w))
          /\ WF_vars(ConnectAcceptDone(w) \/ ConnectAcceptRaise(w))
          /\ WF_vars(HeartbeatCheck(w))
          /\ WF_vars(HeartbeatWake(w))
          /\ WF_vars(HeartbeatSendDone(w) \/ HeartbeatSendRaise(w))
          /\ WF_vars(EndpointFinally(w))
    /\ WF_vars(SendReturn(1) \/ SendRaise(1))
    /\ WF_vars(SendFailCleanup(1))

\* ------------------------------------------------- the HTTP helper's statuses
\* main.py lines 101-118, the inner try of send_command_to_client on the
\* string the future gave: json.loads, then the test of line 105 for an
\* object with a truthy "error" member, which raises HTTPException(502)
\* (line 108; the handler of lines 114-115 raises it again); any other
\* value is returned (line 109).
ProcessReply(result_str) ==
    IF result_str = "error_dict"
    THEN [raised |-> TRUE, exc |-> "HTTPException", status_code |-> 502]
    ELSE [raised |-> FALSE, exc |-> "none", status_code |-> 200]

\* main.py lines 95-128, send_command_to_client: the status the HTTP caller
\* sees for what lines 98-99 gave.  The handlers of the outer try are tried
\* in order on whatever leaves its body, the HTTPException of line 108
\* included: ConnectionError (line 120) gives 400, asyncio.TimeoutError
\* (line 123) gives 504, and every other Exception (line 126), of which
\* HTTPException is one, gives 500.  A returned value is status 200.
send_command_to_client(o) ==
    IF o \in {"NotConnected", "SendFailed", "Disconnected"} THEN 400
    ELSE IF o = "TimeoutError" THEN 504
    ELSE IF ProcessReply(o).raised THEN 500
    ELSE ProcessReply(o).status_code

\* ------------------------------------------------------------- chat_completion
\* main.py lines 225-229 and 258: the command chat_completion sends next,
\* given the model assumed loaded and the requested one: stop the loaded
\* model, start the requested one, or the chat command itself.
ModelStep(model_id, target_model_id) ==
    IF model_id # target_model_id
    THEN IF model_id # NoModel THEN "stop" ELSE "start"
    ELSE "chat"

\* The send_command_to_client calls a request may make from line 204 on:
\* the engine load (line 217), stop (237), start (250) and chat (268).  The
\* calls are numbered, and a request starts only while the numbers suffice.
CallsNeeded(engine_loaded, model_id, target_model_id) ==
    IF engine_loaded
    THEN CASE ModelStep(model_id, target_model_id) = "stop" -> 3
           [] ModelStep(model_id, target_model_id) = "start" -> 2
           [] OTHER -> 1
    ELSE IF ModelStep(model_id, target_model_id) = "stop" THEN 4 ELSE 3
CallsMade == IF chatCmd = NoCmd THEN 0 ELSE chatCmd - ChatId(0)

\* the request goes on to its next command / ends with an HTTP status
ChatContinue(step) ==
    /\ chatCmd + 1 \in ChatCmds
    /\ chatCmd' = chatCmd + 1
    /\ chatStep' = step
    /\ UNCHANGED <<chatPc, chatTarget, chatStatus>>
ChatFinish(status_code) ==
    /\ chatPc' = "idle"
    /\ chatStep' = "none"
    /\ chatTarget' = NoModel
    /\ chatStatus' = status_code
    /\ UNCHANGED chatCmd

\* main.py lines 193-217 (or 225-268 when the engine is assumed loaded): a
\* request for target_model_id arrives; the test of line 204 decides whether
\* the engine load command comes first.  The request then calls
\* send_command_to_client, which is the send_command step of chatCmd.
ChatBegin(target_model_id) ==
    /\ chatPc = "idle"
    /\ CallsMade + CallsNeeded(cortex_engine_loaded, currently_loaded_model_id, target_model_id)
           <= MaxChatCalls
    /\ chatPc' = "busy"
    /\ chatTarget' = target_model_id
    /\ chatStep' = IF ~cortex_engine_loaded
                   THEN "engine"
                   ELSE ModelStep(currently_loaded_model_id, target_model_id)
    /\ chatCmd' = ChatId(CallsMade + 1)
    /\ chatStatus' = NoStatus
    /\ UNCHANGED <<regVars, lock, wsVars, cmdVars, futVars, bVars, lastPick, lastProviderId, hbVars, stateVars>>

\* ChatResume without the try/except of lines 249-256 around the start
\* command: the model is taken as loaded and the chat command follows
\* whether the start command returned or raised.
ChatResume_StartUnchecked ==
    /\ chatPc = "busy"
    /\ cmdPc[chatCmd] = "done"
    /\ LET status_code == send_command_to_client(outcome[chatCmd])
           returned == status_code = 200
       IN CASE chatStep = "engine" ->
                 IF returned
                 THEN /\ cortex_engine_loaded' = TRUE
                      /\ ChatContinue(ModelStep(currently_loaded_model_id, chatTarget))
                      /\ UNCHANGED currently_loaded_model_id
                 ELSE /\ ChatFinish(503)
                      /\ UNCHANGED stateVars
            [] chatStep = "stop" ->
                 /\ ChatContinue("start")
                 /\ UNCHANGED stateVars
            [] chatStep = "start" ->
                 /\ currently_loaded_model_id' = chatTarget
                 /\ ChatContinue("chat")
                 /\ UNCHANGED cortex_engine_loaded
            [] chatStep = "chat" ->
                 /\ ChatFinish(status_code)
                 /\ UNCHANGED stateVars
    \* the call is over: its result and its future go out of scope (the
    \* future lives on only while a pending_commands entry holds it)
    /\ outcome' = [outcome EXCEPT ![chatCmd] = "none"]
    /\ future' = [future EXCEPT ![chatCmd] =
                     IF chatCmd \in DOMAIN pending_commands THEN @ ELSE FutDropped]
    /\ resolutions' = [resolutions EXCEPT ![chatCmd] = 0]
    /\ lostConn' = lostConn \ {chatCmd}
    /\ UNCHANGED <<regVars, lock, wsVars, cmdPc, cmdWs, pending_commands, bVars, lastPick, lastProviderId, hbVars>>

\* main.py lines 217-276: the send_command_to_client call the request
\* awaited has returned or raised; status 200 stands for a return.
\*   engine (217-222): a return sets cortex_engine_loaded and goes on to the
\*     test of line 225; an exception ends the request with 503.
\*   stop (229-240): a return and an exception both go on to start.
\*   start (250-256): a return sets currently_loaded_model_id to the target;
\*     an exception sets it to None and ends the request with 503.
\*   chat (268-276): a return is the response; the HTTPException of
\*     send_command_to_client is raised again (lines 272-273).
ChatResume ==
    /\ chatPc = "busy"
    /\ cmdPc[chatCmd] = "done"
    /\ LET status_code == send_command_to_client(outcome[chatCmd])
           returned == status_code = 200
       IN CASE chatStep = "engine" ->
                 IF returned
                 THEN /\ cortex_engine_loaded' = TRUE
                      /\ ChatContinue(ModelStep(currently_loaded_model_id, chatTarget))
                      /\ UNCHANGED currently_loaded_model_id
                 ELSE /\ ChatFinish(503)
                      /\ UNCHANGED stateVars
            [] chatStep = "stop" ->
                 /\ ChatContinue("start")
                 /\ UNCHANGED stateVars
            [] chatStep = "start" ->
                 IF returned
                 THEN /\ currently_loaded_model_id' = chatTarget
                      /\ ChatContinue("chat")
                      /\ UNCHANGED cortex_engine_loaded
                 ELSE /\ currently_loaded_model_id' = NoModel
                      /\ ChatFinish(503)
                      /\ UNCHANGED cortex_engine_loaded
            [] chatStep = "chat" ->
                 /\ ChatFinish(status_code)
                 /\ UNCHANGED stateVars
    \* the call is over: its result and its future go out of scope (the
    \* future lives on only while a pending_commands entry holds it)
    /\ outcome' = [outcome EXCEPT ![chatCmd] = "none"]
    /\ future' = [future EXCEPT ![chatCmd] =
                     IF chatCmd \in DOMAIN pending_commands THEN @ ELSE FutDropped]
    /\ resolutions' = [resolutions EXCEPT ![chatCmd] = 0]
    /\ lostConn' = lostConn \ {chatCmd}
    /\ UNCHANGED <<regVars, lock, wsVars, cmdPc, cmdWs, pending_commands, bVars, lastPick, lastProviderId, hbVars>>

\* The request in progress is in the middle of an uninterrupted run: its
\* call has ended and the request has not yet looked at the outcome, or it
\* is about to enter send_command and the lock is free.
ChatRunning ==
    /\ chatPc = "busy"
    /\ \/ cmdPc[chatCmd] = "done"
       \/ cmdPc[chatCmd] = "idle" /\ lock = NoTask

\* The handler of a websocket is in the middle of an uninterrupted run: its
\* read loop has ended and disconnect() in its finally block finds the lock
\* free.
HandlerRunning == lock = NoTask /\ \E w \in WS : wsPc[w] = "cleanup"

\* Connections of the designated client, chat_completion requests (one at a
\* time), their commands and inbound frames with value and error replies.
\* A task that is in the middle of a run takes the next step: the run of a
\* request from the end of one call to the send_text() of the next, and the
\* run of a handler from the end of its read loop through disconnect(), are
\* interleaved with other tasks only where they wait for the lock.
NextChat ==
    \/ ~(ChatRunning \/ HandlerRunning) /\
          \E w \in 1..CmdWS : ConnectBegin(w, TARGET_CLIENT_USER_ID, "client", NoUrl)
    \/ ~(ChatRunning \/ HandlerRunning) /\ \E w \in 1..CmdWS : ConnectCloseDone(w)
    \/ ~(ChatRunning \/ HandlerRunning) /\ \E w \in 1..CmdWS : ConnectAcceptDone(w)
    \/ ~(ChatRunning \/ HandlerRunning) /\ \E w \in 1..CmdWS : ConnectAcceptRaise(w)
    \/ ~(ChatRunning \/ HandlerRunning) /\ \E w \in 1..CmdWS : EndpointReadEnds(w)
    \/ \E w \in 1..CmdWS : EndpointFinally(w)
    \/ ~(ChatRunning \/ HandlerRunning) /\
          \E w \in WS, m \in FramesFor(ChatCmds, {"value", "error_dict"}) :
              Sendable(m) /\ receive_response(w, m)
    \/ ~(ChatRunning \/ HandlerRunning) /\ \E c \in ChatCmds : SendReturn(c)
    \/ ~(ChatRunning \/ HandlerRunning) /\ \E c \in ChatCmds : SendRaise(c)
    \/ ~(ChatRunning \/ HandlerRunning) /\ \E c \in ChatCmds : SendFailCleanup(c)
    \/ ~(ChatRunning \/ HandlerRunning) /\ \E c \in ChatCmds : WaitReturn(c)
    \/ ~(ChatRunning \/ HandlerRunning) /\ \E c \in ChatCmds : Timeout(c)
    \/ ~(ChatRunning \/ HandlerRunning) /\ \E t \in Models : ChatBegin(t)
    \/ \E c \in ChatCmds : send_command(c, TARGET_CLIENT_USER_ID)
    \/ ChatResume

SpecChat == Init /\ [][NextChat]_vars

\* ------------------------------------------------------------- properties

\* C1: at most one websocket is registered for a user id, a websocket that a
\* later connect() superseded is never the registered one, and its close()
\* has been called from the moment it was popped, hence before the
\* websocket that supersedes it is installed.
C1_SupersededClosedBeforeInstall ==
    /\ \A u \in Users :
          Cardinality({w \in WS : u \in DOMAIN active_connections
                                    /\ active_connections[u] = w}) <= 1
    /\ \A w \in superseded :
          /\ \A u \in DOMAIN active_connections : active_connections[u] # w
          /\ w \in closeCalled

\* a second connect() for the same user has installed its websocket
C1_Witness ==
    \E w \in superseded :
        /\ wsUser[w] \in DOMAIN active_connections
        /\ wsUser[active_connections[wsUser[w]]] = wsUser[w]
        /\ active_connections[wsUser[w]] # w

\* C2: the future of a command is resolved at most once, and exactly once
\* when its caller's call has ended (by reply, timeout, disconnect or send
\* failure); the paths that lose the race change nothing.
C2_ExactlyOneResolution ==
    \A c \in Cmds :
        /\ resolutions[c] <= 1
        /\ done(future[c]) <=> resolutions[c] = 1
        /\ cmdPc[c] = "done" /\ outcome[c] # "NotConnected" => resolutions[c] = 1

\* a reply arrived after the caller's timeout: the late reply was a no-op
C2_Witness ==
    \E c \in Cmds :
        /\ outcome[c] = "TimeoutError"
        /\ c \notin DOMAIN pending_commands
        /\ future[c].state = "cancelled"
        /\ resolutions[c] = 1
        /\ \A w \in WS : wsPc[w] \notin {"cleanup", "ended"}

\* C3: a disconnect(X) step removes every entry owned by X, resolves the
\* futures of those entries, and leaves every other entry and every other
\* future as it was.
C3_DisconnectCancelsOwnedOnly ==
    [][\A w \in WS : EndpointFinally(w) =>
          LET X == wsUser[w]
              owned == {c \in DOMAIN pending_commands : pending_commands[c] = X}
          IN /\ DOMAIN pending_commands' = DOMAIN pending_commands \ owned
             /\ \A c \in DOMAIN pending_commands' :
                   pending_commands'[c] = pending_commands[c]
             /\ \A c \in owned : done(future'[c])
             /\ \A c \in Cmds \ owned : future'[c] = future[c]
      ]_vars

\* disconnect(X) cancelled a command of X while another user's command
\* stayed pending
C3_Witness ==
    \E w \in WS, c1 \in lostConn, c2 \in DOMAIN pending_commands :
        /\ wsPc[w] = "ended"
        /\ wsEnd[w] = "WebSocketDisconnect"
        /\ pending_commands[c2] # wsUser[w]
        /\ future[c2].state = "pending"
        /\ future[c1].value = "disconnected"

\* C4: a command that disconnect(X) found pending is resolved with the
\* connection-lost error at once: its caller cannot time out any more and
\* its call ends with a ConnectionError, never with TimeoutError.
C4_DisconnectEndsWait ==
    \A c \in lostConn :
        /\ future[c] = [state |-> "exception", value |-> "disconnected"]
        /\ outcome[c] # "TimeoutError"
        /\ cmdPc[c] = "waiting" => ~ENABLED Timeout(c) /\ ENABLED WaitReturn(c)
        /\ cmdPc[c] = "done" => outcome[c] \in {"Disconnected", "SendFailed"}

\* a caller that was waiting got the connection-lost error
C4_Witness ==
    \E c \in lostConn : cmdPc[c] = "done" /\ outcome[c] = "Disconnected"

\* C5: after a caller's timeout the table holds no entry for its command.
C5_TimeoutRemovesEntry ==
    \A c \in Cmds : outcome[c] = "TimeoutError" => c \notin DOMAIN pending_commands

\* C6: a receive_response step on a reply frame whose command id is not in
\* the table, or is in it with a future that is already done (resolved,
\* timed out, cancelled), raises nothing (the read loop goes on), resolves
\* nothing, and leaves every other entry and future as it was.
StaleReply(m) ==
    /\ m.json /\ m.object /\ m.type = "absent"
    /\ m.command_id.kind = "str"
    /\ \/ m.command_id.id \notin DOMAIN pending_commands
       \/ done(future[m.command_id.id])

C6_StaleReplyHarmless ==
    [][\A w \in WS, m \in Frames :
          StaleReply(m) /\ Sendable(m) /\ receive_response(w, m) =>
             /\ wsPc' = wsPc
             /\ wsEnd' = wsEnd
             /\ future' = future
             /\ DOMAIN pending_commands' = DOMAIN pending_commands \ {m.command_id.id}
             /\ \A c \in DOMAIN pending_commands' :
                   pending_commands'[c] = pending_commands[c]
      ]_vars

\* a reply came for a command whose caller had timed out, while another
\* command was pending and stayed so
C6_Witness ==
    \E c \in Cmds, d \in DOMAIN pending_commands :
        /\ outcome[c] = "TimeoutError"
        /\ c \notin DOMAIN pending_commands
        /\ d # c
        /\ future[d].state = "pending"
        /\ \A w \in WS : wsPc[w] \notin {"cleanup", "ended"}

\* C7: no inbound frame makes receive_response raise into the read loop.
C7_NoFrameRaises ==
    \A w \in WS : wsEnd[w] # "receive_response_raised"

\* C8: broadcast_command never fails; the map it returns has exactly the
\* snapshot's keys; a recipient whose wait timed out has the Timeout entry;
\* and no recipient's step waits for another recipient: each can start its
\* send as soon as the lock is free, and each waiting one can time out or
\* return on its own.
EntryTimeout == "error: Timeout waiting for response."
EntryNotConnected == "error: User is not connected"

C8_BroadcastIsolation ==
    /\ bPc # "failed"
    /\ bPc = "done" =>
          /\ DOMAIN bResults = bSnapshot
          /\ \A u \in bSnapshot :
                future[RecipientId(u)].state = "cancelled" => bResults[u] = EntryTimeout
    /\ bPc = "gathering" =>
          \A u \in bSnapshot :
             /\ cmdPc[RecipientId(u)] = "idle" /\ lock = NoTask
                   => ENABLED send_command(RecipientId(u), u)
             /\ cmdPc[RecipientId(u)] = "waiting"
                   => ENABLED (Timeout(RecipientId(u)) \/ WaitReturn(RecipientId(u)))

\* a broadcast over two users returned a Timeout entry for one and the
\* reply of the other
C8_Witness ==
    /\ bPc = "done"
    /\ Cardinality(bSnapshot) = 2
    /\ \E u, v \in bSnapshot : bResults[u] = EntryTimeout /\ bResults[v] = "value"

\* C9: a recipient of the snapshot that send_command finds unregistered has
\* the NotConnected error as its entry; the broadcast does not fail and
\* returns an entry for every user of the snapshot.
C9_UnregisteredRecipient ==
    \A u \in bSnapshot :
        outcome[RecipientId(u)] = "NotConnected" =>
            /\ bPc # "failed"
            /\ bPc = "done" => /\ bResults[u] = EntryNotConnected
                               /\ DOMAIN bResults = bSnapshot

\* one recipient was unregistered after the snapshot, the other replied
C9_Witness ==
    /\ bPc = "done"
    /\ \E u, v \in bSnapshot : bResults[u] = EntryNotConnected /\ bResults[v] = "value"

\* C10: in every state, get_random_provider_info returns None when no
\* registered provider has a non-empty recorded endpoint, and whatever pair
\* it returns is a registered provider with its recorded, non-empty endpoint.
WithEndpoint ==
    {u \in active_providers \cap DOMAIN active_connections :
        u \in DOMAIN provider_http_endpoints /\ Len(provider_http_endpoints[u]) > 0}

ValidPick(r) ==
    /\ WithEndpoint = {} => r = NonePick
    /\ r.some =>
          /\ r.id \in active_providers
          /\ r.id \in DOMAIN active_connections
          /\ r.id \in DOMAIN provider_http_endpoints
          /\ r.endpoint = provider_http_endpoints[r.id]
          /\ Len(r.endpoint) > 0

C10_EndpointRequiredSelection ==
    /\ \A r \in get_random_provider_info : ValidPick(r)
    /\ lastPick.some => Len(lastPick.endpoint) > 0

\* providers are registered, none with an endpoint, and the call returned None
C10_Witness ==
    /\ active_providers # {}
    /\ WithEndpoint = {}
    /\ lastPick = NonePick

\* C11: get_random_provider_id can return None exactly when the provider
\* set is empty; otherwise the values it can return are exactly the members
\* of the provider set, with or without a recorded endpoint.  A user id
\* enters the possible results only in the step that installs it with the
\* provider role, and is not among them after the step that installs it
\* with the plain role.
C11_ProviderIdSelection ==
    /\ [](/\ NoneId \in get_random_provider_id <=> active_providers = {}
          /\ active_providers # {} => get_random_provider_id = active_providers)
    /\ [][\A u \in Users :
             /\ u \in get_random_provider_id' /\ u \notin get_random_provider_id =>
                   \E w \in WS : /\ ConnectAcceptDone(w)
                                 /\ wsUser[w] = u
                                 /\ connArgs.user_type = "provider"
             /\ (\E w \in WS : /\ ConnectAcceptDone(w)
                               /\ wsUser[w] = u
                               /\ connArgs.user_type = "client")
                   => u \notin get_random_provider_id'
         ]_vars

\* the call returned a provider registered without an endpoint while a
\* plain client was registered too
C11_Witness ==
    \E u \in active_providers, v \in DOMAIN active_connections :
        /\ u \notin DOMAIN provider_http_endpoints
        /\ v \notin active_providers
        /\ lastProviderId = u

\* C12: a send_command step for a user id that has no registered
\* connection ends with the NotConnected error, allocates no entry and no
\* future, and leaves the table, the registry and the provider set as they
\* were.
C12_NotConnectedNoEffect ==
    [][\A c \in Cmds, u \in Users :
          send_command(c, u) /\ u \notin DOMAIN active_connections =>
             /\ cmdPc'[c] = "done"
             /\ outcome'[c] = "NotConnected"
             /\ c \notin DOMAIN pending_commands'
             /\ future'[c] = FutNone
             /\ UNCHANGED <<pending_commands, active_connections, active_providers>>
      ]_vars

\* a command to an unregistered user failed while another user was
\* registered and had a command pending
C12_Witness ==
    \E c \in Cmds, d \in DOMAIN pending_commands :
        /\ outcome[c] = "NotConnected"
        /\ future[d].state = "pending"
        /\ pending_commands[d] \in DOMAIN active_connections

\* C13 (as stated): the step that cleans up after a failed send_text()
\* removes the entry of the command and leaves its future resolved with the
\* send-failure error.
C13_SendFailureSetsSendError ==
    [][\A c \in Cmds :
          SendFailCleanup(c) =>
             /\ c \notin DOMAIN pending_commands'
             /\ future'[c] = [state |-> "exception", value |-> "send_error"]
      ]_vars

\* C13 (amended): the step that cleans up after a failed send_text()
\* removes the entry of the command and leaves its future resolved: with
\* the send-failure error if the future was still pending, and with the
\* resolution it already had (a disconnect of the owner, or a reply that
\* came back before send_text() raised) otherwise; the call ends with the
\* send-failure error in both cases and the other entries are untouched.
C13_SendFailureCleansUp ==
    [][\A c \in Cmds :
          SendFailCleanup(c) =>
             /\ c \notin DOMAIN pending_commands'
             /\ done(future'[c])
             /\ ~done(future[c]) => future'[c] = [state |-> "exception", value |-> "send_error"]
             /\ done(future[c]) => future'[c] = future[c]
             /\ outcome'[c] = "SendFailed"
             /\ \A d \in DOMAIN pending_commands \ {c} :
                   /\ d \in DOMAIN pending_commands'
                   /\ pending_commands'[d] = pending_commands[d]
                   /\ future'[d] = future[d]
      ]_vars

\* one failed send found its future pending and set the send-failure
\* error, another found it already resolved by a disconnect of the owner
C13_Witness ==
    \E c, d \in Cmds :
        /\ outcome[c] = "SendFailed"
        /\ future[c] = [state |-> "exception", value |-> "send_error"]
        /\ outcome[d] = "SendFailed"
        /\ future[d] = [state |-> "exception", value |-> "disconnected"]
        /\ DOMAIN pending_commands = {}

\* C14: a disconnect(X) step taken while X has no registered connection
\* leaves the registry, the provider set, the endpoint map and the table of
\* pending commands as they were.
C14_DisconnectIdempotent ==
    [][\A w \in WS :
          EndpointFinally(w) /\ wsUser[w] \notin DOMAIN active_connections =>
             UNCHANGED <<active_connections, active_providers,
                         provider_http_endpoints, pending_commands>>
      ]_vars

ReplyFor(m, c) ==
    /\ m.json /\ m.object /\ m.type = "absent"
    /\ m.command_id = [kind |-> "str", id |-> c]
    /\ c \in DOMAIN pending_commands
    /\ ~done(future[c])

C16_RepliesMatchedById ==
    /\ [][\A c \in DOMAIN pending_commands, m \in AllFrames, w \in WS :
             ReplyFor(m, c) /\ Sendable(m) /\ receive_response(w, m) =>
                /\ future'[c] = [state |-> "result",
                                 value |-> IF m.result = "absent" THEN "null" ELSE m.result]
                /\ \A d \in Cmds \ {c} : future'[d] = future[d]
                /\ DOMAIN pending_commands' = DOMAIN pending_commands \ {c}
                /\ \A d \in DOMAIN pending_commands' :
                      pending_commands'[d] = pending_commands[d]
         ]_vars
    /\ [][\A c \in Cmds :
             WaitReturn(c) /\ future[c].state = "result" => outcome'[c] = future[c].value
         ]_vars

\* with two users registered, the second command was answered before the
\* first and with another payload; the caller of each got its own reply
C16_Witness ==
    /\ cmdPc[1] = "done" /\ outcome[1] = "error_dict"
    /\ cmdPc[2] = "waiting" /\ future[2] = [state |-> "result", value |-> "value"]
    /\ \E u, v \in DOMAIN active_connections : u # v

\* C17: a receive_response step on an error-shaped reply for a pending
\* command resolves that command's future with a value that carries the
\* reply's error string.
C17_ErrorReplyDelivered ==
    [][\A w \in WS, c \in Cmds :
          /\ ReplyFor(ErrorFrame(c), c)
          /\ Sendable(ErrorFrame(c))
          /\ receive_response(w, ErrorFrame(c))
          => /\ future'[c].state = "result"
             /\ future'[c].value = ErrorFrame(c).error
      ]_vars

\* C18: the connect() step that pops the existing connection of a user id
\* resolves the futures of the commands pending for that user id.
C18_SupersedeCancelsPending ==
    [][\A w \in WS, u \in Users, a \in ConnArgs :
          /\ ConnectBegin(w, u, a.user_type, a.http_base_url)
          /\ u \in DOMAIN active_connections
          => \A c \in DOMAIN pending_commands :
                pending_commands[c] = u => done(future'[c])
      ]_vars

\* C19: a websocket whose heartbeat ended on a failed ping is not the
\* registered one of its user id any more.
C19_ProbeFailureUnregisters ==
    \A w \in WS : hbPc[w] = "ended_send_failed" => ~Registered(w)

\* C20: a heartbeat task whose websocket is not (or no longer) the one
\* registered for its user id never goes on to send a ping: a check made in
\* that situation, before or after the sleep, ends the task; the checks
\* change neither the registry nor the pending commands; and under fair
\* scheduling every heartbeat task whose websocket is no longer registered
\* ends.
HbEnded(w) == hbPc[w] \in {"ended_mismatch", "ended_send_failed"}

C20_StaleHeartbeatEnds ==
    /\ [][\A w \in WS :
             /\ ~Registered(w) /\ hbPc[w] \in {"check", "sleeping"}
                   => hbPc'[w] \in {hbPc[w], "ended_mismatch"}
             /\ ~Registered(w) /\ (HeartbeatCheck(w) \/ HeartbeatWake(w))
                   => hbPc'[w] = "ended_mismatch"
             /\ HeartbeatCheck(w) \/ HeartbeatWake(w)
                   => UNCHANGED <<regVars, pending_commands, future>>
         ]_vars
    /\ \A w \in WS : (hbPc[w] # "none" /\ ~Registered(w)) ~> HbEnded(w)

\* the heartbeat of a superseded websocket and the heartbeat of a websocket
\* unregistered by disconnect both ended on the mismatch
C20_Witness ==
    \E w \in superseded, v \in WS \ superseded :
        /\ hbPc[w] = "ended_mismatch"
        /\ hbPc[v] = "ended_mismatch"
        /\ wsEnd[v] = "WebSocketDisconnect"

\* C21: no task that is suspended in a transport call (close, accept, a
\* write) holds the manager's lock: in every state in which some task
\* awaits the network the lock is free.
C21_LockNotHeldAcrossIO ==
    /\ \A w \in WS : wsPc[w] \in {"closing", "accepting"} => lock # w
    /\ \A w \in WS : hbPc[w] = "sending" => lock = NoTask
    /\ \A c \in Cmds : cmdPc[c] \in {"sending", "waiting"} => lock = NoTask

\* C22: in the step in which a send_command caller calls send_text(), the
\* websocket it writes to is the one registered, in the state the step
\* leaves, for the user id the command is for; it is not a websocket a
\* connect() has superseded, however the call interleaves with connect().
C22_WriteToRegistered ==
    [][\A c \in Cmds, w \in WS :
          cmdWs[c] = NoWebSocket /\ cmdWs'[c] = w =>
             /\ c \in DOMAIN pending_commands'
             /\ pending_commands'[c] \in DOMAIN active_connections'
             /\ active_connections'[pending_commands'[c]] = w
             /\ w \notin superseded'
      ]_vars

\* a command is being written to the websocket that superseded another
\* websocket of the same user
C22_Witness ==
    \E c \in Cmds, w \in superseded :
        /\ cmdPc[c] = "sending"
        /\ cmdWs[c] # w
        /\ wsUser[cmdWs[c]] = wsUser[w]
        /\ Registered(cmdWs[c])

\* The states of a command, read off its caller and its future: Created
\* (allocated, send_text() not yet returned), Sent (the caller awaits the
\* future), and the terminal states Completed (result), TimedOut
\* (cancelled by wait_for), Cancelled (connection-lost error) and
\* SendFailed (send-failure error).
Created(c) == cmdPc[c] \in {"sending", "send_failed"} /\ ~done(future[c])
Sent(c) == cmdPc[c] = "waiting" /\ ~done(future[c])

\* C23 (as stated): a terminal state is final, and a command in Created
\* reaches no terminal state other than SendFailed (a reply shows that the
\* frame was written, so a command completed by a reply is not counted as
\* leaving Created directly).
C23_CreatedOnlyFails ==
    [][\A c \in Cmds :
          /\ done(future[c]) => future'[c] = future[c]
          /\ Created(c) /\ done(future'[c]) /\ future'[c].state # "result"
                => future'[c] = [state |-> "exception", value |-> "send_error"]
      ]_vars

\* C23 (amended): a command starts in Created; a terminal state is final
\* (the four are values of one future, hence exclusive); TimedOut is
\* reached from Sent only and SendFailed from Created only, after
\* send_text() raised; a command in Created cannot time out, but it can be
\* Cancelled by a disconnect of its owner or Completed by a reply while
\* send_text() is in flight.
C23_CommandStateMachine ==
    [][\A c \in Cmds :
          /\ done(future[c]) => future'[c] = future[c]
          /\ future[c] = FutNone /\ future'[c] # FutNone
                => future'[c] = FutPending /\ cmdPc'[c] = "sending"
          /\ Created(c) => Created(c)' \/ Sent(c)' \/ done(future'[c])
          /\ Created(c) /\ done(future'[c]) => future'[c].state \in {"exception", "result"}
          /\ ~done(future[c]) /\ future'[c].state = "cancelled" => Sent(c)
          /\ ~done(future[c]) /\ future'[c].value = "send_error" => cmdPc[c] = "send_failed"
      ]_vars

\* one command was cancelled by a disconnect and another completed by a
\* reply, each while its send_text() was still in flight
C23_Witness ==
    \E c, d \in Cmds :
        /\ cmdPc[c] = "sending"
        /\ future[c] = [state |-> "exception", value |-> "disconnected"]
        /\ cmdPc[d] = "sending"
        /\ future[d].state = "result"

\* C24: in every state (the states between the awaits of connect()
\* included) every member of the provider set is a registered user id and
\* every user id with a recorded endpoint is a member of the provider set.
C24_ProvidersRegistered ==
    /\ active_providers \subseteq DOMAIN active_connections
    /\ DOMAIN provider_http_endpoints \subseteq active_providers

\* a user id that was selected as a provider with an endpoint has
\* reconnected with the plain role and is registered without being a
\* provider, and the accept() of another connect() has raised
C24_Witness ==
    \E u \in DOMAIN active_connections, w \in superseded, v \in WS :
        /\ lastPick.some /\ lastPick.id = u
        /\ wsUser[w] = u
        /\ u \notin active_providers
        /\ wsEnd[v] = "accept_raised"

\* C25: a receive_response step on a frame of type "pong", whether or not
\* it carries the command_id of a pending command, or on a frame without a
\* command_id, leaves the table and every future as they were and does not
\* end the read loop.
C25_PongDiscarded ==
    [][\A w \in WS, m \in AllFrames :
          /\ Sendable(m)
          /\ receive_response(w, m)
          /\ m.type = "pong" \/ m.command_id.kind = "absent"
          => UNCHANGED <<pending_commands, future, wsPc, wsEnd>>
      ]_vars

\* a command is pending, its future unresolved, and the handler of its
\* owner's websocket is in its read loop: a pong carrying the command's id
\* can come in
C25_Witness ==
    \E c \in DOMAIN pending_commands, w \in WS :
        /\ cmdPc[c] = "waiting"
        /\ future[c].state = "pending"
        /\ wsPc[w] = "reading"
        /\ Registered(w)
        /\ pending_commands[c] = wsUser[w]
        /\ Sendable(Frame("pong", "str", c, "value"))
        /\ ENABLED receive_response(w, Frame("pong", "str", c, "value"))

\* C26: every recorded endpoint is a well-formed absolute URL: it begins
\* with "http://" or with "https://" and names a host after the scheme.
Str_https_sep == <<"h","t","t","p","s",":","/","/">>

WellFormedUrl(s) ==
    \/ startswith(s, Str_http) /\ Len(s) > Len(Str_http)
    \/ startswith(s, Str_https_sep) /\ Len(s) > Len(Str_https_sep)

C26_EndpointWellFormed ==
    \A u \in DOMAIN provider_http_endpoints : WellFormedUrl(provider_http_endpoints[u])


\* C27: a finished relayed command whose target was not connected is
\* reported as 503, one that got no reply within the timeout as 504, and one
\* whose reply carries an application error as 502.
C27_StatusMapping ==
    \A c \in Direct :
        cmdPc[c] = "done" =>
            /\ outcome[c] = "NotConnected" => send_command_to_client(outcome[c]) = 503
            /\ outcome[c] = "TimeoutError" => send_command_to_client(outcome[c]) = 504
            /\ outcome[c] = "error_dict" => send_command_to_client(outcome[c]) = 502


\* C28: when the handler of a superseded websocket w calls disconnect for
\* its user while a newer websocket is registered for that user, the newer
\* registration stays and no pending command is removed or resolved.
C28_SuccessorSurvives ==
    [][\A w \in WS :
         (/\ EndpointFinally(w)
          /\ w \in superseded
          /\ wsUser[w] \in DOMAIN active_connections
          /\ active_connections[wsUser[w]] # w)
         => (/\ active_connections' = active_connections
             /\ pending_commands' = pending_commands
             /\ future' = future)]_vars


\* C29: a pending command is given a result only by a frame received on a
\* connection of its owner: while no websocket of the owner is reading
\* frames, no step resolves the command with a result.
OwnerReading(c) ==
    \E w \in WS : wsPc[w] = "reading" /\ wsUser[w] = pending_commands[c]

C30_PendingOwnersRegistered ==
    lock = NoTask =>
        \A c \in DOMAIN pending_commands : pending_commands[c] \in DOMAIN active_connections


\* C31: the lock is held only by a task that is inside the locked block of
\* connect (so it was released on every path that left a block, exceptions
\* included); no step takes the lock while it is held; and under fair
\* scheduling a held lock is released and every task that waits for the
\* lock (a heartbeat check, a disconnect, the cleanup of a failed send)
\* gets it: no behaviour stays for ever in a state where the lock is held
\* or where one of these tasks waits.
C31_NoLockDeadlock ==
    /\ [](lock # NoTask => lock \in WS /\ wsPc[lock] \in {"closing", "accepting"})
    /\ [][lock # NoTask => lock' \in {lock, NoTask}]_vars
    /\ []<>(lock = NoTask)
    /\ \A w \in WS : []<>(hbPc[w] # "check")
    /\ \A w \in WS : []<>(wsPc[w] # "cleanup")
    /\ \A c \in Direct : []<>(cmdPc[c] # "send_failed")

\* a connect holds the lock across accept() while three tasks wait for it:
\* the handler of the websocket it closed (disconnect in its finally block),
\* a heartbeat about to make its check, and the cleanup of a failed send
C31_Witness ==
    /\ lock \in WS
    /\ wsPc[lock] = "accepting"
    /\ \E w \in superseded : wsPc[w] = "cleanup" /\ hbPc[w] = "check"
    /\ \E c \in Cmds : cmdPc[c] = "send_failed"


\* C32: in the step in which a heartbeat calls send_json() with the ping,
\* its websocket is the one registered for its user id, in the state before
\* the step and in the state the step leaves, and no connect() has
\* superseded it.
C32_PingToRegistered ==
    [][\A w \in WS :
          hbPc[w] # "sending" /\ hbPc'[w] = "sending" =>
             /\ Registered(w)
             /\ wsUser[w] \in DOMAIN active_connections'
             /\ active_connections'[wsUser[w]] = w
             /\ w \notin superseded'
      ]_vars

\* a websocket was superseded while its heartbeat slept, so that its check
\* after the sleep is still to come, and the heartbeat of the websocket that
\* replaced it is writing a ping
C32_Witness ==
    \E w \in superseded, v \in WS :
        /\ hbPc[w] = "sleeping"
        /\ wsUser[v] = wsUser[w]
        /\ Registered(v)
        /\ hbPc[v] = "sending"


\* C33: whenever the designated client has no registered connection and no
\* chat_completion request is in progress, the assumed state is reset: the
\* engine is not assumed loaded and no model is assumed loaded.
C33_AssumedStateReset ==
    (TARGET_CLIENT_USER_ID \notin DOMAIN active_connections /\ chatPc = "idle")
        => (cortex_engine_loaded = FALSE /\ currently_loaded_model_id = NoModel)


\* C34: chat_completion reaches its chat command only through the engine
\* and model steps.  The stop and start commands are sent only with the
\* engine assumed loaded, and the chat command only with the requested
\* model assumed loaded, at the moment the request turns to them; an engine
\* load or a start command that fails ends the request with 503, so that no
\* chat command follows; currently_loaded_model_id takes a model only when
\* the start command of that model has returned, and is None after a failed
\* start; a stop command, failed or not, is followed by the start command.
CallFailed == send_command_to_client(outcome[chatCmd]) # 200

C34_ChatAfterLoad ==
    [][/\ (chatStep \in {"none", "engine"} /\ chatStep' \in {"stop", "start", "chat"})
            => cortex_engine_loaded'
       /\ (chatStep # "chat" /\ chatStep' = "chat")
            => (currently_loaded_model_id' = chatTarget' /\ chatTarget' \in Models)
       /\ (\E c \in ChatCmds : cmdPc[c] = "idle" /\ cmdPc'[c] = "sending")
            => (chatPc = "busy" /\ cmdPc[chatCmd] = "idle" /\ cmdPc'[chatCmd] = "sending")
       /\ (ChatResume /\ chatStep \in {"engine", "start"} /\ CallFailed)
            => (chatPc' = "idle" /\ chatStatus' = 503)
       /\ (ChatResume /\ chatStep = "start" /\ CallFailed)
            => currently_loaded_model_id' = NoModel
       /\ (currently_loaded_model_id' # currently_loaded_model_id
              /\ currently_loaded_model_id' # NoModel)
            => (/\ ChatResume
                /\ chatStep = "start"
                /\ ~CallFailed
                /\ currently_loaded_model_id' = chatTarget)
       /\ (ChatResume /\ chatStep = "stop")
            => (chatPc' = "busy" /\ chatStep' = "start" /\ chatTarget' = chatTarget)
      ]_vars

\* the start command of a request is being written after the stop command
\* for the previously loaded model timed out
C34_Witness ==
    /\ chatPc = "busy"
    /\ chatStep = "start"
    /\ cmdPc[chatCmd] = "sending"
    /\ currently_loaded_model_id \notin {NoModel, chatTarget}
    /\ chatCmd - 1 \in DOMAIN pending_commands
    /\ future[chatCmd - 1].state = "cancelled"

=============================================================================
